---- MODULE Spec2Model ----
(***************************************************************************)
(* A model of the recommendation session of the Clarity application:      *)
(* the useClarity hook (time-window negotiation, deferred ranking,        *)
(* accept / suggest-another / dismiss), the TimeConfirmationDialog        *)
(* component and the recommendTask ranker.                                 *)
(*                                                                         *)
(* Instants are integers counted in clock units; UnitsPerMinute units make *)
(* one minute, so that windows which are not a whole number of minutes     *)
(* are representable.  An optional value is a sequence of length 0 or 1.   *)
(***************************************************************************)
EXTENDS Integers, Sequences, FiniteSets, TLC

\* ------------------------------------------------------------------ bounds
UnitsPerMinute == 2   \* clock units in a minute
MaxNow == 44          \* the clock stops advancing here
MaxAsks == 2          \* calls of askForRecommendation in one behaviour
MaxFetches == 2       \* advisory lookups in flight at once
MaxTimers == 1        \* deferred rankings pending at once
MaxDataChanges == 1   \* places where tasks and energy depart from the loaded data
MaxCompleted == 1     \* tasks completed in a session after confirm

\* ------------------------------------------------------- program constants
MinutesPerDay == 1440
MinWindowMinutes == 10
DefaultWindowMinutes == 45
AVAILABLE_MINUTES == 60
MIN_PRESSURE == 20
STEEPNESS == 2
PresetMinutes == {20, 40, 60}

UnitsPerDay == MinutesPerDay * UnitsPerMinute

None == << >>
Some(x) == << x >>
OrElse(option, other) == IF option # None THEN option ELSE other

\* ---------------------------------------------------------------- numbers
Max(a, b) == IF a >= b THEN a ELSE b
Min(a, b) == IF a <= b THEN a ELSE b

\* Math.round(n / d) for d > 0: the nearest integer, halves rounded up.
MathRound(n, d) == (2 * n + d) \div (2 * d)

\* Whole minutes between two instants, as the code computes them.
MinutesBetween(startTime, windowEnd) == MathRound(windowEnd - startTime, UnitsPerMinute)

RECURSIVE GCD(_, _)
GCD(a, b) == IF b = 0 THEN a ELSE GCD(b, a % b)

\* Rationals are pairs <<numerator, denominator>> with denominator > 0.
Abs(a) == IF a < 0 THEN -a ELSE a
Rat(n, d) == LET g == GCD(Abs(n), d) IN IF g = 0 THEN <<n, d>> ELSE <<n \div g, d \div g>>
RLess(x, y) == x[1] * y[2] < y[1] * x[2]
RLeq(x, y) == x[1] * y[2] <= y[1] * x[2]
RMax(x, y) == IF RLess(x, y) THEN y ELSE x
RMin(x, y) == IF RLess(y, x) THEN y ELSE x
RInt(n) == <<n, 1>>

\* ------------------------------------------------------------- calendar time
\* Date.getDay(): 0 is Sunday.  Instant 0 is midnight at the start of a Monday.
GetDay(t) == (1 + t \div UnitsPerDay) % 7
DayIndex(t) == t \div UnitsPerDay
MinuteOfDay(t) == (t % UnitsPerDay) \div UnitsPerMinute

\* ------------------------------------------------------------ deadline text
\* A deadline text is a sequence of words separated by single spaces.  A date
\* of the form M/D/YYYY is one word, DateWords gives the day it names.
ToLowerCase(w) ==
    CASE w = "Reminder" -> "reminder"
      [] w = "Today" -> "today"
      [] w = "Due" -> "due"
      [] OTHER -> w

LowerText(text) == [i \in 1..Len(text) |-> ToLowerCase(text[i])]

DateWords == {"D0", "D1", "D2", "D9"}
DateDay(w) == CASE w = "D0" -> 0 [] w = "D1" -> 1 [] w = "D2" -> 2 [] OTHER -> 9

\* String.prototype.includes for a phrase of whole words.
Includes(text, phrase) ==
    \E i \in 0..(Len(text) - Len(phrase)) :
        \A j \in 1..Len(phrase) : text[i + j] = phrase[j]

\* The first match of /due\s+(\d{1,2})\/(\d{1,2})\/(\d{4})/i, or None.
CustomDateMatch(deadline) ==
    LET lower == LowerText(deadline)
        hits == {i \in 1..(Len(deadline) - 1) :
                    lower[i] = "due" /\ deadline[i + 1] \in DateWords}
    IN  IF hits = {} THEN None
        ELSE Some(deadline[(CHOOSE i \in hits : \A k \in hits : i <= k) + 1])

\* ------------------------------------------------------------ parseDeadline
\* Days until due as a rational, or None when there is no deadline.
parseDeadline(deadline, clock) ==
    LET lower == LowerText(deadline)
        customDateMatch == CustomDateMatch(deadline)
    IN  IF customDateMatch # None
        THEN \* end of the due day (23:59:59.999) minus clock, in days
             LET dueDate == (DateDay(customDateMatch[1]) + 1) * UnitsPerDay - 1
             IN  Some(Rat(dueDate - clock, UnitsPerDay))
        ELSE IF Includes(lower, <<"today">>) THEN Some(<<1, 2>>)
        ELSE IF Includes(lower, <<"tomorrow">>) THEN Some(RInt(1))
        ELSE IF Includes(lower, <<"friday">>)
        THEN LET daysUntilFriday == (5 - GetDay(clock) + 7) % 7
             IN  Some(RInt(IF daysUntilFriday = 0 THEN 7 ELSE daysUntilFriday))
        ELSE IF Includes(lower, <<"this", "week">>)
        THEN Some(RInt(Max(1, 7 - GetDay(clock))))
        ELSE IF Includes(lower, <<"when", "you", "have", "time">>)
                \/ Includes(lower, <<"someday">>)
        THEN None
        ELSE Some(RInt(7))

computePressureGentleCurve(task, clock) ==
    IF task.taskType = "growth" THEN RInt(10)
    ELSE IF task.taskType = "general" THEN RInt(5)
    ELSE IF task.taskType = "non-negotiable"
    THEN LET daysUntilDue == parseDeadline(task.deadline, clock)
         IN  IF daysUntilDue = None THEN RInt(20)
             ELSE LET a == RMax(daysUntilDue[1], <<1, 10>>)[1]
                      b == RMax(daysUntilDue[1], <<1, 10>>)[2]
                      den == b * b + a * a
                      pressure == Rat(MIN_PRESSURE * den + (100 - MIN_PRESSURE) * b * b, den)
                  IN  RMax(RInt(MIN_PRESSURE), RMin(RInt(100), pressure))
    ELSE RInt(10)

computePressureUnclamped(task, clock) ==
    IF task.taskType = "growth" THEN RInt(10)
    ELSE IF task.taskType = "general" THEN RInt(5)
    ELSE IF task.taskType = "non-negotiable"
    THEN LET daysUntilDue == parseDeadline(task.deadline, clock)
         IN  IF daysUntilDue = None THEN RInt(20)
             ELSE LET a == daysUntilDue[1][1]
                      b == daysUntilDue[1][2]
                      den == b * b + STEEPNESS * a * a
                      pressure == Rat(MIN_PRESSURE * den + (100 - MIN_PRESSURE) * b * b, den)
                  IN  RMax(RInt(MIN_PRESSURE), RMin(RInt(100), pressure))
    ELSE RInt(10)

\* ---------------------------------------------------------- computePressure
computePressure(task, clock) ==
    IF task.taskType = "growth" THEN RInt(10)
    ELSE IF task.taskType = "general" THEN RInt(5)
    ELSE IF task.taskType = "non-negotiable"
    THEN LET daysUntilDue == parseDeadline(task.deadline, clock)
         IN  IF daysUntilDue = None THEN RInt(20)
             ELSE LET adjustedDays == RMax(daysUntilDue[1], <<1, 10>>)
                      a == adjustedDays[1]
                      b == adjustedDays[2]
                      \* MIN + (100 - MIN) / (1 + STEEPNESS * d * d), d = a / b
                      den == b * b + STEEPNESS * a * a
                      pressure == Rat(MIN_PRESSURE * den + (100 - MIN_PRESSURE) * b * b, den)
                  IN  RMax(RInt(MIN_PRESSURE), RMin(RInt(100), pressure))
    ELSE RInt(10)

computeEnergyFitIgnoringEnergy(task, energyLevel) ==
    IF task.estimatedMinutes >= 30 THEN 100
    ELSE IF task.estimatedMinutes >= 20 THEN 80
    ELSE 60

\* --------------------------------------------------------- computeEnergyFit
computeEnergyFit(task, energyLevel) ==
    LET minutes == task.estimatedMinutes
    IN  IF energyLevel = "low"
        THEN IF minutes <= 20 THEN 100
             ELSE IF minutes <= 30 THEN 70
             ELSE IF minutes <= 45 THEN 40
             ELSE 10
        ELSE IF energyLevel = "medium"
        THEN IF minutes >= 20 /\ minutes <= 45 THEN 100
             ELSE IF minutes >= 15 /\ minutes <= 60 THEN 80
             ELSE 50
        ELSE IF energyLevel = "high"
        THEN IF minutes >= 30 THEN 100
             ELSE IF minutes >= 20 THEN 80
             ELSE 60
        ELSE 50

computeDurationFitUnfloored(task, availableMinutes) ==
    LET taskMinutes == task.estimatedMinutes
    IN  IF 10 * taskMinutes <= 9 * availableMinutes THEN 100
        ELSE IF taskMinutes <= availableMinutes THEN 70
        ELSE 60 - (taskMinutes - availableMinutes) * 2

\* ------------------------------------------------------- computeDurationFit
computeDurationFit(task, availableMinutes) ==
    LET taskMinutes == task.estimatedMinutes
    IN  IF 10 * taskMinutes <= 9 * availableMinutes THEN 100
        ELSE IF taskMinutes <= availableMinutes THEN 70
        ELSE LET overage == taskMinutes - availableMinutes
             IN  Max(10, 60 - overage * 2)

\* ------------------------------------------------------ generateExplanation
\* formatEndTime: the clock time to the minute, prefixed "tomorrow at" when the
\* date is not today's.
formatEndTime(date, clock) ==
    [minuteOfDay |-> MinuteOfDay(date), today |-> DayIndex(date) = DayIndex(clock)]

\* The words that stand for the end of the window in an explanation.
CommitmentPhrase == [commitment |-> TRUE, minuteOfDay |-> 0, today |-> TRUE]
ClockPhrase(timeBoundary) ==
    [commitment |-> FALSE, minuteOfDay |-> timeBoundary.minuteOfDay,
     today |-> timeBoundary.today]

FindGoal(task, goalList) ==
    LET hits == {i \in 1..Len(goalList) : goalList[i].id = task.goalId}
    IN  IF task.goalId = "" \/ hits = {} THEN None
        ELSE Some(goalList[CHOOSE i \in hits : \A k \in hits : i <= k])

\* The fixed text of each sentence template as its words in lower case, without
\* punctuation; "<time>" and "<goal>" stand for the interpolated clock time and
\* goal title.
TimeWords(commitment, beforeCommitment, untilTime) ==
    IF commitment THEN beforeCommitment \o <<"before", "your", "next", "commitment">>
    ELSE untilTime \o <<"<time>">>

TemplateWordsNamingLateness(template, commitment) ==
    IF template = "approaching its deadline"
    THEN <<"this", "is", "overdue", "addressing", "it", "now", "prevents", "future",
           "constraints">>
    ELSE <<"you", "have", "time", "for", "this", "task">>

TemplateWords(template, commitment) ==
    CASE template = "preserves your options for later" ->
           <<"this", "fits", "comfortably">>
           \o TimeWords(commitment, << >>, <<"before">>)
           \o <<"and", "addressing", "it", "now", "preserves", "your", "options", "for", "later">>
      [] template = "before this becomes more constrained" ->
           <<"you", "have", "space", "now", "before", "this", "becomes", "more",
             "constrained", "this", "fits", "well", "in">>
           \o TimeWords(commitment, <<"the", "time", "you", "have">>,
                        <<"the", "time", "you", "have", "until">>)
      [] template = "approaching its deadline" ->
           <<"this", "is", "approaching", "its", "deadline", "addressing", "it", "now",
             "while", "you", "have">>
           \o TimeWords(commitment, <<"the", "time">>, <<"time", "until">>)
           \o <<"prevents", "future", "constraints">>
      [] template = "core commitment is coming up" ->
           <<"this", "core", "commitment", "is", "coming", "up", "starting", "now",
             "aligns", "well", "with">>
           \o TimeWords(commitment, <<"your", "time">>, <<"your", "time", "until">>)
           \o <<"and", "current", "energy">>
      [] template = "core obligation fits well" ->
           <<"this", "core", "obligation", "fits", "well", "with", "your", "available">>
           \o TimeWords(commitment, <<"the", "time">>, <<"time", "until">>)
           \o <<"and", "current", "energy">>
      [] template = "core obligation aligns" ->
           <<"this", "core", "obligation", "aligns", "with", "your", "available">>
           \o TimeWords(commitment, <<"the", "time">>, <<"time", "until">>)
           \o <<"and", "energy", "right", "now">>
      [] template = "make progress toward goal" ->
           <<"you", "have">>
           \o TimeWords(commitment, <<"the", "time">>, <<"space", "right", "now", "until">>)
           \o <<"to", "make", "progress", "toward", "<goal>", "this", "time", "aligns",
                "well", "with", "your", "energy">>
      [] OTHER ->
           <<"you", "have">>
           \o TimeWords(commitment, <<"the", "time">>, <<"space", "right", "now", "until">>)
           \o <<"for", "this", "growth", "task", "and", "it", "fits", "well", "with",
                "your", "current", "energy">>

\* An explanation is the sentence template chosen, the phrase for the end of
\* the window and the goal title interpolated into it ("" when none is).
generateExplanation(task, reasonType, goalList, daysUntilDue, pressure, windowEnd, timeWindowSource, clock) ==
    LET goal == FindGoal(task, goalList)
        timeBoundary == formatEndTime(windowEnd, clock)
        timePhrase == IF timeWindowSource = "calendar-suggested"
                      THEN CommitmentPhrase ELSE ClockPhrase(timeBoundary)
        Sentence(template, title) ==
            [template |-> template, timePhrase |-> timePhrase, goalTitle |-> title]
    IN  IF reasonType = "core-pressure"
        THEN IF daysUntilDue # None
             THEN IF RLess(daysUntilDue[1], <<1, 2>>)
                  THEN Sentence("preserves your options for later", "")
                  ELSE IF RLeq(daysUntilDue[1], RInt(1))
                  THEN Sentence("before this becomes more constrained", "")
                  ELSE IF RLeq(daysUntilDue[1], RInt(3))
                  THEN Sentence("approaching its deadline", "")
                  ELSE IF RLeq(daysUntilDue[1], RInt(7))
                  THEN Sentence("core commitment is coming up", "")
                  ELSE Sentence("core obligation fits well", "")
             ELSE Sentence("core obligation aligns", "")
        ELSE IF goal # None
        THEN Sentence("make progress toward goal", goal[1].title)
        ELSE Sentence("for this growth task", "")

\* ------------------------------------------------------------ recommendTask
isReminderTaskCaseSensitive(task) ==
    task.deadline = <<"reminder">> \/ task.deadline = <<"when", "you", "have", "time">>

isReminderTask(task) ==
    LET deadline == LowerText(task.deadline)
    IN  deadline = <<"reminder">> \/ deadline = <<"when", "you", "have", "time">>

IsCandidate(task, excludeTaskIds) ==
    /\ ~task.completed
    /\ ~task.inProgress
    /\ task.id \notin excludeTaskIds
    /\ ~isReminderTask(task)

candidateTasks(taskList, excludeTaskIds) ==
    SelectSeq(taskList, LAMBDA task : IsCandidate(task, excludeTaskIds))

\* score = pressure * 0.5 + energyFit * 0.3 + durationFit * 0.2, exactly.
Score(pressure, energyFit, durationFit) ==
    Rat(5 * pressure[1] + (3 * energyFit + 2 * durationFit) * pressure[2],
        10 * pressure[2])

ScoreTaskLabelledByType(task, energyLevel, availableMinutes, clock) ==
    LET pressure == computePressure(task, clock)
        energyFit == computeEnergyFit(task, energyLevel)
        durationFit == computeDurationFit(task, availableMinutes)
    IN  [task |-> task,
         score |-> Score(pressure, energyFit, durationFit),
         reasonType |-> IF task.taskType = "non-negotiable"
                        THEN "core-pressure" ELSE "growth-opportunity",
         pressure |-> pressure,
         energyFit |-> energyFit,
         durationFit |-> durationFit,
         daysUntilDue |-> parseDeadline(task.deadline, clock)]

ScoreTask(task, energyLevel, availableMinutes, clock) ==
    LET pressure == computePressure(task, clock)
        energyFit == computeEnergyFit(task, energyLevel)
        durationFit == computeDurationFit(task, availableMinutes)
    IN  [task |-> task,
         score |-> Score(pressure, energyFit, durationFit),
         reasonType |-> IF task.taskType = "non-negotiable" /\ RLess(RInt(50), pressure)
                        THEN "core-pressure" ELSE "growth-opportunity",
         pressure |-> pressure,
         energyFit |-> energyFit,
         durationFit |-> durationFit,
         daysUntilDue |-> parseDeadline(task.deadline, clock)]

RECURSIVE InsertByScoreUnstable(_, _)
InsertByScoreUnstable(sorted, x) ==
    IF sorted = << >> THEN << x >>
    ELSE IF RLeq(Head(sorted).score, x.score) THEN << x >> \o sorted
    ELSE << Head(sorted) >> \o InsertByScoreUnstable(Tail(sorted), x)

\* Array.prototype.sort with (a, b) => b.score - a.score: descending and
\* stable, so equal scores keep their input order.
RECURSIVE InsertByScore(_, _)
InsertByScore(sorted, x) ==
    IF sorted = << >> THEN << x >>
    ELSE IF RLess(Head(sorted).score, x.score) THEN << x >> \o sorted
    ELSE << Head(sorted) >> \o InsertByScore(Tail(sorted), x)

RECURSIVE SortByScore(_)
SortByScore(scored) ==
    IF scored = << >> THEN << >>
    ELSE InsertByScore(SortByScore(SubSeq(scored, 1, Len(scored) - 1)),
                       scored[Len(scored)])

BestRecommendationUncapped(best, goalList, availableMinutes, timeWindowSource, clock) ==
    Some([task |-> best.task,
          reasonType |-> best.reasonType,
          explanation |->
              generateExplanation(best.task, best.reasonType, goalList,
                                  best.daysUntilDue, best.pressure,
                                  clock + availableMinutes * UnitsPerMinute,
                                  timeWindowSource, clock),
          duration |-> best.task.estimatedMinutes])

\* The recommendation built from the best scored task.
BestRecommendation(best, goalList, availableMinutes, timeWindowSource, clock) ==
    LET duration == Min(best.task.estimatedMinutes, availableMinutes)
        windowEnd == clock + availableMinutes * UnitsPerMinute
    IN  Some([task |-> best.task,
              reasonType |-> best.reasonType,
              explanation |->
                  generateExplanation(best.task, best.reasonType, goalList,
                                      best.daysUntilDue, best.pressure,
                                      windowEnd, timeWindowSource, clock),
              duration |-> duration])

recommendTask(taskList, energyLevel, goalList, excludeTaskIds, availableMinutes, timeWindowSource, clock) ==
    LET candidates == candidateTasks(taskList, excludeTaskIds)
    IN  IF Len(candidates) = 0 THEN None
        ELSE LET scoredTasks ==
                     SortByScore([i \in 1..Len(candidates) |->
                         ScoreTask(candidates[i], energyLevel, availableMinutes, clock)])
             IN  BestRecommendation(scoredTasks[1], goalList, availableMinutes,
                                    timeWindowSource, clock)

\* =========================================================== session state
VARIABLES
    goals, tasks, energy, previousEnergyRef,          \* useClarity
    recommendation, isRecommending, timeWindow,
    showTimeConfirmation, calendarSuggestedEndTime, calendarEventName,
    endTime, source, validationMessage,               \* TimeConfirmationDialog
    now,                                              \* the wall clock
    fetches,                                          \* advisory lookups in flight
    timers,                                           \* pending setTimeout callbacks
    asks,                                             \* calls of askForRecommendation so far
    proposal,                                         \* history: source proposed when the dialog opened
    userValue,                                        \* history: end time the user entered
    last                                              \* history: the last operation

hookVars == <<goals, tasks, energy, previousEnergyRef, recommendation,
              isRecommending, timeWindow, showTimeConfirmation,
              calendarSuggestedEndTime, calendarEventName>>
dialogVars == <<endTime, source, validationMessage>>
vars == <<hookVars, dialogVars, now, fetches, timers, asks, proposal, userValue, last>>

\* ------------------------------------------------------------------ inputs
EnergyLevels == {"low", "medium", "high"}
InitialEnergy == "medium"

Goal1 == [id |-> "g1", title |-> "Write the thesis"]

Task1 ==
    [id |-> "t1", estimatedMinutes |-> 20, deadline |-> <<"today", "if", "possible">>,
     goalId |-> "", taskType |-> "non-negotiable", completed |-> FALSE, inProgress |-> FALSE]
Task2 ==
    [id |-> "t2", estimatedMinutes |-> 45, deadline |-> <<"this", "week">>,
     goalId |-> "g1", taskType |-> "growth", completed |-> FALSE, inProgress |-> FALSE]
Task3 ==
    [id |-> "t3", estimatedMinutes |-> 30, deadline |-> <<"when", "you", "have", "time">>,
     goalId |-> "", taskType |-> "growth", completed |-> FALSE, inProgress |-> FALSE]

\* The task lists the application is loaded with.
InitialTaskLists == { <<Task1, Task2, Task3>>, <<Task3>> }

\* The clock advances in steps of these sizes.
TickSteps == {11 * UnitsPerMinute + 1}

\* Start of the next calendar event, relative to the instant of the lookup:
\* just under ten minutes, fifteen minutes.
SuggestionOffsets == {10 * UnitsPerMinute - 1, 15 * UnitsPerMinute}
EventNames == {"Standup"}

\* Minutes of the day the user types into the end-time field.
EditMinutes == {5, 21}

TooShortMessage == "This may be a bit short to start something."

CompletedCount(taskList) == Cardinality({i \in 1..Len(taskList) : taskList[i].completed})
DataChanges(taskList, energyLevel) ==
    CompletedCount(taskList) + (IF energyLevel # InitialEnergy THEN 1 ELSE 0)

\* ---------------------------------------------------- TimeConfirmationDialog
\* A reset effect that proposes any suggestion it is given, past ones too.
ResetEffectAnySuggestion(open, suggestedEndTime, cur) ==
    IF ~open THEN cur
    ELSE IF suggestedEndTime # None
    THEN [endTime |-> suggestedEndTime[1], source |-> "calendar-suggested",
          validationMessage |-> ""]
    ELSE [endTime |-> now + DefaultWindowMinutes * UnitsPerMinute,
          source |-> "system-default", validationMessage |-> ""]

\* The reset effect, run when `open`, `suggestedEndTime` or `suggestedSource`
\* changed: the state of the dialog after it.  suggestedSource is the prop the
\* page passes: calendar-suggested exactly when a suggested end time is present.
ResetEffect(open, suggestedEndTime, cur) ==
    IF ~open THEN cur
    ELSE IF suggestedEndTime # None /\ suggestedEndTime[1] > now
    THEN [endTime |-> suggestedEndTime[1], source |-> "calendar-suggested",
          validationMessage |-> ""]
    ELSE [endTime |-> now + DefaultWindowMinutes * UnitsPerMinute,
          source |-> "system-default", validationMessage |-> ""]

DialogState == [endTime |-> endTime, source |-> source,
                validationMessage |-> validationMessage]

SetDialog(d) ==
    /\ endTime' = d.endTime
    /\ source' = d.source
    /\ validationMessage' = d.validationMessage

\* parseTimeFromInput: that clock time today, or tomorrow when it has passed.
parseTimeFromInput(minuteOfDay) ==
    LET newDate == DayIndex(now) * UnitsPerDay + minuteOfDay * UnitsPerMinute
    IN  IF newDate < now THEN newDate + UnitsPerDay ELSE newDate

Init ==
    /\ goals = << Goal1 >>
    /\ tasks \in InitialTaskLists
    /\ energy = InitialEnergy
    /\ previousEnergyRef = InitialEnergy
    /\ recommendation = None
    /\ isRecommending = FALSE
    /\ timeWindow = None
    /\ showTimeConfirmation = FALSE
    /\ calendarSuggestedEndTime = None
    /\ calendarEventName = None
    /\ now = 0
    /\ endTime = now + DefaultWindowMinutes * UnitsPerMinute
    /\ source = "system-default"
    /\ validationMessage = ""
    /\ fetches = << >>
    /\ timers = << >>
    /\ asks = 0
    /\ proposal = None
    /\ userValue = None
    /\ last = [op |-> "init"]

\* The confirmation dialog is modal: while it is open the page behind it (ask
\* button, recommendation card, energy selector, task list) takes no input.
PageInteractive == ~showTimeConfirmation

RemoveAt(seq, i) == SubSeq(seq, 1, i - 1) \o SubSeq(seq, i + 1, Len(seq))

\* ------------------------------------------------------ askForRecommendation
\* With a calendar token: the part before `await getNextCalendarEvent(now)`.
\* The lookup either answers later (FetchComplete) or never does.
AskWithToken ==
    /\ PageInteractive
    /\ recommendation = None
    /\ asks < MaxAsks
    /\ Len(fetches) < MaxFetches
    /\ asks' = asks + 1
    /\ recommendation' = None
    /\ timeWindow' = None
    /\ \E responds \in BOOLEAN :
          fetches' = Append(fetches, [askedAt |-> now, responds |-> responds,
                                      stale |-> FALSE])
    /\ last' = [op |-> "ask"]
    /\ UNCHANGED <<goals, tasks, energy, previousEnergyRef, isRecommending,
                   showTimeConfirmation, calendarSuggestedEndTime, calendarEventName,
                   dialogVars, now, timers, proposal, userValue>>

\* Without a token nothing is awaited: the dialog opens in the same turn.
AskWithoutToken ==
    /\ PageInteractive
    /\ recommendation = None
    /\ asks < MaxAsks
    /\ asks' = asks + 1
    /\ recommendation' = None
    /\ timeWindow' = None
    /\ calendarSuggestedEndTime' = None
    /\ calendarEventName' = None
    /\ showTimeConfirmation' = TRUE
    /\ SetDialog(ResetEffect(TRUE, None, DialogState))
    /\ proposal' = Some(source')
    /\ userValue' = None
    /\ last' = [op |-> "lookup", outcome |-> "no-token", opened |-> TRUE,
                startTime |-> None, summary |-> None, stale |-> FALSE]
    /\ UNCHANGED <<goals, tasks, energy, previousEnergyRef, isRecommending,
                   now, fetches, timers>>

\* What getNextCalendarEvent can answer to a lookup made at `askedAt`: an event
\* that starts (or, if under way, ends) after askedAt, or null; "error" is the
\* catch branch of askForRecommendation.
LookupResults(askedAt) ==
    { [outcome |-> "event", startTime |-> Some(askedAt + off), summary |-> Some(name)] :
          off \in SuggestionOffsets, name \in EventNames }
    \cup { [outcome |-> o, startTime |-> None, summary |-> None] : o \in {"null", "error"} }

\* The continuation of askForRecommendation after the await, with the reset
\* effect of the dialog that the re-render triggers.
FetchComplete(i) ==
    /\ i \in 1..Len(fetches)
    /\ fetches[i].responds
    /\ \E result \in LookupResults(fetches[i].askedAt) :
          LET depsChanged == \/ ~showTimeConfirmation
                             \/ result.startTime # None   \* a new Date object
                             \/ calendarSuggestedEndTime # None
          IN  /\ calendarSuggestedEndTime' = result.startTime
              /\ calendarEventName' = result.summary
              /\ showTimeConfirmation' = TRUE
              /\ IF depsChanged
                 THEN SetDialog(ResetEffect(TRUE, result.startTime, DialogState))
                 ELSE UNCHANGED dialogVars
              /\ proposal' = IF showTimeConfirmation THEN proposal ELSE Some(source')
              /\ userValue' = IF showTimeConfirmation THEN userValue ELSE None
              /\ last' = [op |-> "lookup", outcome |-> result.outcome,
                          opened |-> ~showTimeConfirmation,
                          startTime |-> result.startTime, summary |-> result.summary,
                          stale |-> fetches[i].stale]
    /\ fetches' = RemoveAt(fetches, i)
    /\ UNCHANGED <<goals, tasks, energy, previousEnergyRef, recommendation,
                   isRecommending, timeWindow, now, timers, asks>>

\* ------------------------------------------------------------ dialog handlers
handleTimeChange(minuteOfDay) ==
    /\ showTimeConfirmation
    /\ LET newEndTime == parseTimeFromInput(minuteOfDay)
       IN  /\ endTime' = newEndTime
           /\ source' = "user"
           /\ validationMessage' = ""
           /\ userValue' = Some(newEndTime)
    /\ last' = [op |-> "edit"]
    /\ UNCHANGED <<hookVars, now, fetches, timers, asks, proposal>>

handlePresetClick(minutes) ==
    /\ showTimeConfirmation
    /\ LET newEndTime == now + minutes * UnitsPerMinute
       IN  /\ endTime' = newEndTime
           /\ source' = "user"
           /\ validationMessage' = ""
           /\ userValue' = Some(newEndTime)
    /\ last' = [op |-> "preset"]
    /\ UNCHANGED <<hookVars, now, fetches, timers, asks, proposal>>

\* A confirmed window that carries the event name whatever its source.
ConfirmedWindowKeepsName ==
    [startTime |-> now, endTime |-> endTime, source |-> source,
     eventName |-> calendarEventName]

\* The window handleConfirm passes to onConfirm.
ConfirmedWindow ==
    [startTime |-> now, endTime |-> endTime, source |-> source,
     eventName |-> IF source = "calendar-suggested" THEN calendarEventName ELSE None]

\* The validation of handleConfirm.
ConfirmAccepts == ~(MinutesBetween(now, endTime) < MinWindowMinutes)

\* handleTimeConfirmed: stores the window, closes the dialog and defers the
\* ranking by 200 ms; the callback closes over tasks, energy and goals.
handleTimeConfirmed(confirmedTimeWindow) ==
    /\ timeWindow' = Some(confirmedTimeWindow)
    /\ showTimeConfirmation' = FALSE
    /\ isRecommending' = TRUE
    /\ calendarSuggestedEndTime' = None
    /\ calendarEventName' = None
    /\ timers' = Append(timers,
          [tasks |-> tasks, energy |-> energy, goals |-> goals,
           availableMinutes |-> MinutesBetween(confirmedTimeWindow.startTime,
                                               confirmedTimeWindow.endTime),
           timeWindowSource |-> confirmedTimeWindow.source])

\* History of a click on Continue: whether it went through, and the props and
\* the user's entry at that moment (a successful confirm clears them).
ConfirmRecord(ok) ==
    [op |-> "confirm", ok |-> ok, suggestedEndTime |-> calendarSuggestedEndTime,
     eventName |-> calendarEventName, proposal |-> proposal, userValue |-> userValue]

handleConfirm ==
    /\ showTimeConfirmation
    /\ IF ~ConfirmAccepts
       THEN /\ validationMessage' = TooShortMessage
            /\ last' = ConfirmRecord(FALSE)
            /\ UNCHANGED <<hookVars, endTime, source, now, fetches, timers, asks,
                           proposal, userValue>>
       ELSE /\ Len(timers) < MaxTimers
            /\ handleTimeConfirmed(ConfirmedWindow)
            /\ proposal' = None
            /\ userValue' = None
            /\ last' = ConfirmRecord(TRUE)
            /\ UNCHANGED <<goals, tasks, energy, previousEnergyRef, recommendation,
                           dialogVars, now, fetches, asks>>

cancelTimeConfirmation ==
    /\ showTimeConfirmation
    /\ showTimeConfirmation' = FALSE
    /\ proposal' = None
    /\ userValue' = None
    /\ fetches' = [i \in DOMAIN fetches |-> [fetches[i] EXCEPT !.stale = TRUE]]
    /\ last' = [op |-> "cancel"]
    /\ UNCHANGED <<goals, tasks, energy, previousEnergyRef, recommendation,
                   isRecommending, timeWindow, calendarSuggestedEndTime,
                   calendarEventName, dialogVars, now, timers, asks>>

\* The deferred callback of handleTimeConfirmed.
DeferredRanking ==
    /\ timers # << >>
    /\ LET c == Head(timers)
       IN  recommendation' = recommendTask(c.tasks, c.energy, c.goals, {},
                                           c.availableMinutes, c.timeWindowSource, now)
    /\ isRecommending' = FALSE
    /\ timers' = Tail(timers)
    /\ last' = [op |-> "ranking"]
    /\ UNCHANGED <<goals, tasks, energy, previousEnergyRef, timeWindow,
                   showTimeConfirmation, calendarSuggestedEndTime, calendarEventName,
                   dialogVars, now, fetches, asks, proposal, userValue>>

\* -------------------------------------------------------- session operations
WindowMinutes(tw) == MinutesBetween(tw.startTime, tw.endTime)

\* An accept that starts the task, as api.startTask would.
acceptRecommendationStartsTask ==
    /\ PageInteractive
    /\ recommendation # None
    /\ tasks' = [i \in 1..Len(tasks) |->
                    IF tasks[i].id = recommendation[1].task.id
                    THEN [tasks[i] EXCEPT !.inProgress = TRUE] ELSE tasks[i]]
    /\ recommendation' = None
    /\ timeWindow' = None
    /\ isRecommending' = FALSE
    /\ last' = [op |-> "accept"]
    /\ UNCHANGED <<goals, energy, previousEnergyRef, showTimeConfirmation,
                   calendarSuggestedEndTime, calendarEventName, dialogVars, now,
                   fetches, timers, asks, proposal, userValue>>

acceptRecommendation ==
    /\ PageInteractive
    /\ recommendation # None
    /\ recommendation' = None
    /\ timeWindow' = None
    /\ isRecommending' = FALSE
    /\ last' = [op |-> "accept"]
    /\ UNCHANGED <<goals, tasks, energy, previousEnergyRef, showTimeConfirmation,
                   calendarSuggestedEndTime, calendarEventName, dialogVars, now,
                   fetches, timers, asks, proposal, userValue>>

suggestAnotherExcludingNothing ==
    /\ PageInteractive
    /\ recommendation # None
    /\ IF timeWindow = None
       THEN UNCHANGED <<recommendation, timeWindow, isRecommending>>
       ELSE LET availableMinutes == WindowMinutes(timeWindow[1])
                nextRec == recommendTask(tasks, energy, goals, {},
                                         availableMinutes, timeWindow[1].source, now)
            IN  /\ recommendation' = nextRec
                /\ IF recommendation' # None
                   THEN UNCHANGED <<timeWindow, isRecommending>>
                   ELSE /\ timeWindow' = None
                        /\ isRecommending' = FALSE
    /\ last' = [op |-> "suggestAnother"]
    /\ UNCHANGED <<goals, tasks, energy, previousEnergyRef, showTimeConfirmation,
                   calendarSuggestedEndTime, calendarEventName, dialogVars, now,
                   fetches, timers, asks, proposal, userValue>>

suggestAnother ==
    /\ PageInteractive
    /\ recommendation # None
    /\ IF timeWindow = None
       THEN UNCHANGED <<recommendation, timeWindow, isRecommending>>
       ELSE LET excludedTaskIds == {recommendation[1].task.id}
                availableMinutes == WindowMinutes(timeWindow[1])
                nextRec == recommendTask(tasks, energy, goals, excludedTaskIds,
                                         availableMinutes, timeWindow[1].source, now)
            IN  /\ recommendation' = nextRec
                /\ IF recommendation' # None
                   THEN UNCHANGED <<timeWindow, isRecommending>>
                   ELSE /\ timeWindow' = None
                        /\ isRecommending' = FALSE
    /\ last' = [op |-> "suggestAnother"]
    /\ UNCHANGED <<goals, tasks, energy, previousEnergyRef, showTimeConfirmation,
                   calendarSuggestedEndTime, calendarEventName, dialogVars, now,
                   fetches, timers, asks, proposal, userValue>>

dismissRecommendation ==
    /\ PageInteractive
    /\ recommendation # None
    /\ recommendation' = None
    /\ timeWindow' = None
    /\ isRecommending' = FALSE
    /\ last' = [op |-> "dismiss"]
    /\ UNCHANGED <<goals, tasks, energy, previousEnergyRef, showTimeConfirmation,
                   calendarSuggestedEndTime, calendarEventName, dialogVars, now,
                   fetches, timers, asks, proposal, userValue>>

\* setEnergy from the energy selector, with the effect that follows the render.
EnergyEffect(newEnergy) ==
    /\ PageInteractive
    /\ newEnergy # energy
    /\ energy' = newEnergy
    /\ IF recommendation # None /\ timeWindow # None /\ previousEnergyRef # newEnergy
       THEN LET availableMinutes == WindowMinutes(timeWindow[1])
                newRec == recommendTask(tasks, newEnergy, goals, {}, availableMinutes,
                                        timeWindow[1].source, now)
            IN  recommendation' = OrElse(newRec, recommendation)
       ELSE UNCHANGED recommendation
    /\ previousEnergyRef' = newEnergy
    /\ last' = [op |-> "setEnergy"]
    /\ UNCHANGED <<goals, tasks, isRecommending, timeWindow, showTimeConfirmation,
                   calendarSuggestedEndTime, calendarEventName, dialogVars, now,
                   fetches, timers, asks, proposal, userValue>>

setEnergy(newEnergy) ==
    /\ DataChanges(tasks, newEnergy) <= MaxDataChanges
    /\ EnergyEffect(newEnergy)

\* completeTask from the task list: api.completeTask, then setTasks.
TaskCompleted(i) ==
    /\ PageInteractive
    /\ i \in 1..Len(tasks)
    /\ ~tasks[i].completed
    /\ tasks' = [tasks EXCEPT ![i].completed = TRUE]
    /\ last' = [op |-> "completeTask"]
    /\ UNCHANGED <<goals, energy, previousEnergyRef, recommendation, isRecommending,
                   timeWindow, showTimeConfirmation, calendarSuggestedEndTime,
                   calendarEventName, dialogVars, now, fetches, timers, asks, proposal, userValue>>

completeTask(i) ==
    /\ DataChanges(tasks, energy) < MaxDataChanges
    /\ TaskCompleted(i)

\* Time passes.
Tick ==
    /\ \E d \in TickSteps : now + d <= MaxNow /\ now' = now + d
    /\ last' = [op |-> "tick"]
    /\ UNCHANGED <<hookVars, dialogVars, fetches, timers, asks, proposal, userValue>>

Next ==
    \/ AskWithToken
    \/ AskWithoutToken
    \/ \E i \in 1..MaxFetches : FetchComplete(i)
    \/ \E m \in EditMinutes : handleTimeChange(m)
    \/ \E m \in PresetMinutes : handlePresetClick(m)
    \/ handleConfirm
    \/ cancelTimeConfirmation
    \/ DeferredRanking
    \/ acceptRecommendation
    \/ suggestAnother
    \/ dismissRecommendation
    \/ \E e \in EnergyLevels : setEnergy(e)
    \/ \E i \in 1..Len(tasks) : completeTask(i)
    \/ Tick

Spec == Init /\ [][Next]_vars

\* The steps of DeferredRanking, seen through the timer queue: it is the only
\* action that removes a timer, and it is enabled whenever one is pending.
TimerFires == timers # << >> /\ timers' = Tail(timers)

\* The lookups that answer do answer, and a timer that is set does fire.
LiveSpec ==
    /\ Spec
    /\ WF_vars(\E i \in 1..MaxFetches : FetchComplete(i))
    /\ WF_timers(TimerFires)

\* ============================================================== the ranker
\* recommendTask on its own: the hook's state holds the inputs (tasks, energy,
\* goals, the window, the clock) and each step is one call, made the way
\* handleTimeConfirmed, suggestAnother and the energy effect make it.

RankTask(id, taskType, estimatedMinutes, deadline, goalId) ==
    [id |-> id, estimatedMinutes |-> estimatedMinutes, deadline |-> deadline,
     goalId |-> goalId, taskType |-> taskType, completed |-> FALSE, inProgress |-> FALSE]

RankTasks ==
    << RankTask("r1", "non-negotiable", 20, <<"today", "if", "possible">>, ""),
       RankTask("r2", "growth", 45, <<"this", "week">>, "g1"),
       RankTask("r3", "growth", 45, <<"when", "you", "have", "time">>, ""),
       RankTask("r4", "non-negotiable", 30, <<"Reminder">>, ""),
       RankTask("r5", "general", 90, <<"someday">>, ""),
       RankTask("r6", "non-negotiable", 45, <<"this", "week">>, ""),
       RankTask("r7", "growth", 45, <<"friday">>, ""),
       RankTask("r8", "non-negotiable", 20, <<"Due", "D0">>, ""),
       RankTask("r9", "non-negotiable", 20, <<"due", "D2">>, ""),
       [RankTask("r10", "non-negotiable", 20, <<"today">>, "") EXCEPT !.completed = TRUE],
       [RankTask("r11", "non-negotiable", 20, <<"today">>, "") EXCEPT !.inProgress = TRUE],
       RankTask("r12", "non-negotiable", 45, <<"tomorrow">>, "g2") >>

\* Non-negotiable tasks due on Friday, without a deadline and with a deadline
\* parseDeadline does not know.
CoreTasks ==
    << RankTask("r13", "non-negotiable", 30, <<"friday">>, ""),
       RankTask("r14", "non-negotiable", 30, <<"someday">>, ""),
       RankTask("r15", "non-negotiable", 30, <<"next", "month">>, "") >>

\* Task lists of one or two of these tasks in either order, and two of three.
RankTaskLists ==
    { << RankTasks[i] >> : i \in DOMAIN RankTasks }
    \cup { << RankTasks[p[1]], RankTasks[p[2]] >> :
              p \in { q \in (DOMAIN RankTasks) \X (DOMAIN RankTasks) : q[1] # q[2] } }
    \cup { << RankTasks[2], RankTasks[1], RankTasks[7] >>,
           << RankTasks[5], RankTasks[7], RankTasks[2] >> }
    \cup { << CoreTasks[i] >> : i \in DOMAIN CoreTasks }

\* Instants of a call: a half and a quarter of a day before the end of the day
\* D0, the end of that day, and a half and a whole day after it.
RankClocks ==
    { UnitsPerDay \div 2 - 1, 3 * (UnitsPerDay \div 4) - 1, UnitsPerDay - 1,
      UnitsPerDay + UnitsPerDay \div 2 - 1, 2 * UnitsPerDay - 1 }

RankMinutes == {10, 30, 60}
WindowSources == {"user", "calendar-suggested", "system-default"}
RankEventNames == {"Standup", "Untitled event"}

\* The windows a confirm at `clock` can have emitted.
RankWindows(clock) ==
    { [startTime |-> clock, endTime |-> clock + m * UnitsPerMinute, source |-> src,
       eventName |-> IF src = "calendar-suggested" THEN Some(name) ELSE None] :
          m \in RankMinutes, src \in WindowSources, name \in RankEventNames }

\* The call the hook makes for a window: the minutes of the window and its
\* source are passed on, its event name is not.
RankWindow(tw, excludeTaskIds) ==
    recommendTask(tasks, energy, goals, excludeTaskIds, WindowMinutes(tw), tw.source, now)

RankInit ==
    /\ goals = << Goal1 >>
    /\ tasks \in RankTaskLists
    /\ energy \in EnergyLevels
    /\ previousEnergyRef = energy
    /\ recommendation = None
    /\ isRecommending = FALSE
    /\ timeWindow = None
    /\ showTimeConfirmation = FALSE
    /\ calendarSuggestedEndTime = None
    /\ calendarEventName = None
    /\ now \in RankClocks
    /\ endTime = now + DefaultWindowMinutes * UnitsPerMinute
    /\ source = "system-default"
    /\ validationMessage = ""
    /\ fetches = << >>
    /\ timers = << >>
    /\ asks = 0
    /\ proposal = None
    /\ userValue = None
    /\ last = [op |-> "init"]

\* One session: a window is confirmed and the tasks are ranked for it.
Rank ==
    /\ timeWindow = None
    /\ \E tw \in RankWindows(now) :
       \E excludeTaskIds \in {{}} \cup {{tasks[i].id} : i \in 1..Len(tasks)} :
          /\ timeWindow' = Some(tw)
          /\ recommendation' = RankWindow(tw, excludeTaskIds)
          /\ last' = [op |-> "rank", excludeTaskIds |-> excludeTaskIds]
    /\ UNCHANGED <<goals, tasks, energy, previousEnergyRef, isRecommending,
                   showTimeConfirmation, calendarSuggestedEndTime, calendarEventName,
                   dialogVars, now, fetches, timers, asks, proposal, userValue>>

\* Time passes before the call.
RankTick ==
    /\ timeWindow = None
    /\ \E clock \in RankClocks : clock > now /\ now' = clock
    /\ UNCHANGED <<hookVars, dialogVars, fetches, timers, asks, proposal, userValue, last>>

RankNext == Rank \/ RankTick

RankSpec == RankInit /\ [][RankNext]_vars

\* =================================================== a session after confirm
\* The hook between the confirm of a window and the end of the session: the
\* ranking, "suggest another", a change of energy and the completion of a task.
RecomputeTaskLists == InitialTaskLists \cup { <<Task1, Task3>> }

RecomputeInit ==
    /\ goals = << Goal1 >>
    /\ tasks \in RecomputeTaskLists
    /\ energy = InitialEnergy
    /\ previousEnergyRef = energy
    /\ recommendation = None
    /\ isRecommending = FALSE
    /\ timeWindow = None
    /\ showTimeConfirmation = FALSE
    /\ calendarSuggestedEndTime = None
    /\ calendarEventName = None
    /\ now = 0
    /\ endTime = now + DefaultWindowMinutes * UnitsPerMinute
    /\ source = "system-default"
    /\ validationMessage = ""
    /\ fetches = << >>
    /\ timers = << >>
    /\ asks = 0
    /\ proposal = None
    /\ userValue = None
    /\ last = [op |-> "init"]

\* ------------------------------------------------- changes of tasks and goals
EffectRecommendationOnAnyChange(newTasks, newGoals, newEnergy) ==
    IF recommendation # None /\ timeWindow # None
    THEN OrElse(recommendTask(newTasks, newEnergy, newGoals, {},
                              WindowMinutes(timeWindow[1]), timeWindow[1].source, now),
                recommendation)
    ELSE recommendation

\* The energy effect as it runs after a render in which tasks, goals or energy
\* changed: it returns at once when the energy is the one it saw last.
EffectRecommendation(newTasks, newGoals, newEnergy) ==
    IF previousEnergyRef = newEnergy THEN recommendation
    ELSE IF recommendation # None /\ timeWindow # None
    THEN OrElse(recommendTask(newTasks, newEnergy, newGoals, {},
                              WindowMinutes(timeWindow[1]), timeWindow[1].source, now),
                recommendation)
    ELSE recommendation

\* setTasks / setGoals with the render and the effect that follow.
SetData(newTasks, newGoals, op) ==
    /\ PageInteractive
    /\ tasks' = newTasks
    /\ goals' = newGoals
    /\ recommendation' = EffectRecommendation(newTasks, newGoals, energy)
    /\ previousEnergyRef' = energy
    /\ last' = [op |-> op]
    /\ UNCHANGED <<energy, isRecommending, timeWindow, showTimeConfirmation,
                   calendarSuggestedEndTime, calendarEventName, dialogVars, now,
                   fetches, timers, asks, proposal, userValue>>

\* Partial<T> applied to a record.
Updated(record, updates) ==
    [f \in DOMAIN record |-> IF f \in DOMAIN updates THEN updates[f] ELSE record[f]]

NewTasks ==
    { [id |-> "t4", estimatedMinutes |-> 20, deadline |-> <<"today">>, goalId |-> "g1",
       taskType |-> "non-negotiable", completed |-> FALSE, inProgress |-> FALSE] }
TaskUpdates == { [estimatedMinutes |-> 60], [deadline |-> <<"someday">>] }
NewGoals == { [id |-> "g2", title |-> "Run a marathon"] }
GoalUpdates == { [title |-> "Finish the thesis"] }

createTask(taskData) ==
    /\ \A i \in 1..Len(tasks) : tasks[i].id # taskData.id
    /\ SetData(Append(tasks, taskData), goals, "createTask")

updateTask(i, updates) ==
    /\ i \in 1..Len(tasks)
    /\ Updated(tasks[i], updates) # tasks[i]
    /\ SetData([tasks EXCEPT ![i] = Updated(tasks[i], updates)], goals, "updateTask")

deleteTask(i) ==
    /\ i \in 1..Len(tasks)
    /\ SetData(RemoveAt(tasks, i), goals, "deleteTask")

createGoal(goalData) ==
    /\ \A i \in 1..Len(goals) : goals[i].id # goalData.id
    /\ SetData(tasks, Append(goals, goalData), "createGoal")

updateGoal(i, updates) ==
    /\ i \in 1..Len(goals)
    /\ Updated(goals[i], updates) # goals[i]
    /\ SetData(tasks, [goals EXCEPT ![i] = Updated(goals[i], updates)], "updateGoal")

\* deleteGoal also removes the goal's id from the tasks that name it.
deleteGoal(i) ==
    /\ i \in 1..Len(goals)
    /\ SetData([k \in 1..Len(tasks) |->
                    IF tasks[k].goalId = goals[i].id
                    THEN [tasks[k] EXCEPT !.goalId = ""] ELSE tasks[k]],
               RemoveAt(goals, i), "deleteGoal")

\* One change of the data is followed per session, made once the ranking ran.
DataChange ==
    /\ last.op = "rank"
    /\ \/ \E taskData \in NewTasks : createTask(taskData)
       \/ \E i \in 1..Len(tasks), updates \in TaskUpdates : updateTask(i, updates)
       \/ \E i \in 1..Len(tasks) : deleteTask(i)
       \/ \E goalData \in NewGoals : createGoal(goalData)
       \/ \E i \in 1..Len(goals), updates \in GoalUpdates : updateGoal(i, updates)
       \/ \E i \in 1..Len(goals) : deleteGoal(i)

CompleteInSession(i) ==
    /\ CompletedCount(tasks) < MaxCompleted
    /\ TaskCompleted(i)

RecomputeNext ==
    \/ Rank
    \/ RankTick
    \/ \E e \in EnergyLevels : EnergyEffect(e)
    \/ \E i \in 1..Len(tasks) : CompleteInSession(i)
    \/ suggestAnother

RecomputeSpec == RecomputeInit /\ [][RecomputeNext]_vars

\* The same session with the changes of tasks and goals in place of "suggest
\* another" and the passing of time.
DataNext ==
    \/ Rank
    \/ \E e \in EnergyLevels : EnergyEffect(e)
    \/ \E i \in 1..Len(tasks) : CompleteInSession(i)
    \/ DataChange

DataSpec == RecomputeInit /\ [][DataNext]_vars

\* ================================================ a session with fixed tasks
\* The hook from the ask to the end of the session with tasks and goals that do
\* not change: two growth tasks of the same goal and deadline, of which the
\* ranker prefers the shorter at medium and low energy and the longer at high
\* energy.
EnergyTaskA ==
    [id |-> "t5", estimatedMinutes |-> 20, deadline |-> <<"this", "week">>,
     goalId |-> "g1", taskType |-> "growth", completed |-> FALSE, inProgress |-> FALSE]
EnergyTaskB ==
    [id |-> "t6", estimatedMinutes |-> 30, deadline |-> <<"this", "week">>,
     goalId |-> "g1", taskType |-> "growth", completed |-> FALSE, inProgress |-> FALSE]

FixedTaskLists == { <<EnergyTaskA, EnergyTaskB>>, <<EnergyTaskA>> }

FixedInit ==
    /\ goals = << Goal1 >>
    /\ tasks \in FixedTaskLists
    /\ energy = InitialEnergy
    /\ previousEnergyRef = energy
    /\ recommendation = None
    /\ isRecommending = FALSE
    /\ timeWindow = None
    /\ showTimeConfirmation = FALSE
    /\ calendarSuggestedEndTime = None
    /\ calendarEventName = None
    /\ now = 0
    /\ endTime = now + DefaultWindowMinutes * UnitsPerMinute
    /\ source = "system-default"
    /\ validationMessage = ""
    /\ fetches = << >>
    /\ timers = << >>
    /\ asks = 0
    /\ proposal = None
    /\ userValue = None
    /\ last = [op |-> "init"]

FixedNext ==
    \/ AskWithoutToken
    \/ \E m \in PresetMinutes : handlePresetClick(m)
    \/ handleConfirm
    \/ cancelTimeConfirmation
    \/ DeferredRanking
    \/ suggestAnother
    \/ dismissRecommendation
    \/ \E e \in EnergyLevels : EnergyEffect(e)
    \/ Tick

FixedSpec == FixedInit /\ [][FixedNext]_vars

\* ================================================================= claims
CalendarSuggested == "calendar-suggested"

\* The ids of the tasks recommendTask can choose from.
EligibleIds(taskList) ==
    {taskList[i].id : i \in {k \in 1..Len(taskList) : IsCandidate(taskList[k], {})}}

\* C1 - Window override.  When the dialog opened on a calendar suggestion and
\* the user has since typed an end time or clicked a preset, a confirm that goes
\* through emits a window whose source is "user", never "calendar-suggested",
\* and whose end time is the value the user entered.
C1_UserEditOverridesSuggestion ==
    (/\ last.op = "confirm"
     /\ last.ok
     /\ last.proposal = Some(CalendarSuggested)
     /\ last.userValue # None)
    => (/\ timeWindow # None
        /\ timeWindow[1].source = "user"
        /\ timeWindow[1].endTime = last.userValue[1])

\* C2 - The user's value wins under every interleaving.  From the user's edit or
\* preset click until confirm or cancel, the dialog holds the end time the user
\* entered with source "user": no other event, a late completion of the calendar
\* lookup included, changes it.
C2_UserValueWins ==
    (showTimeConfirmation /\ userValue # None)
    => (endTime = userValue[1] /\ source = "user")

\* C3 - Liveness of ask().  Every ask that starts a calendar lookup leads to the
\* confirmation dialog being open, whether the lookup succeeds, answers nothing,
\* fails or hangs.
C3_AskLeadsToDialog == (fetches # << >>) ~> showTimeConfirmation

\* C4 - A window that is too short is refused.  A confirm when the end time is
\* less than ten minutes after the current instant emits nothing: the message
\* is shown, the dialog stays open with its end time and source, and no window
\* is stored and no ranking is scheduled.
C4_TooShortIsRefused ==
    [][(/\ last'.op = "confirm"
        /\ endTime - now < MinWindowMinutes * UnitsPerMinute)
       => (/\ ~last'.ok
           /\ validationMessage' = TooShortMessage
           /\ showTimeConfirmation'
           /\ endTime' = endTime
           /\ source' = source
           /\ timeWindow' = timeWindow
           /\ timers' = timers)]_vars

\* C5 - Minimum window.  Every window a confirm emits spans at least ten
\* minutes, measured exactly: a window of nine and a half minutes is not
\* emitted.
C5_WindowAtLeastTenMinutes ==
    timeWindow # None
    => timeWindow[1].endTime - timeWindow[1].startTime
           >= MinWindowMinutes * UnitsPerMinute

\* C6 - Default proposal.  When a lookup opens the dialog, the dialog proposes
\* the start of the suggested event with source "calendar-suggested" if that
\* start is strictly after the current instant, and otherwise (no suggestion, a
\* suggestion not in the future, a failed lookup, no token) the current instant
\* plus 45 minutes with source "system-default"; no message is shown.
C6_DefaultProposal ==
    (last.op = "lookup" /\ last.opened)
    => (/\ showTimeConfirmation
        /\ validationMessage = ""
        /\ IF last.startTime # None /\ last.startTime[1] > now
           THEN endTime = last.startTime[1] /\ source = CalendarSuggested
           ELSE /\ endTime = now + DefaultWindowMinutes * UnitsPerMinute
                /\ source = "system-default")
C6_Witness ==
    /\ last.op = "lookup"
    /\ last.opened
    /\ last.startTime # None
    /\ last.startTime[1] <= now
    /\ source = "system-default"
    /\ endTime = now + DefaultWindowMinutes * UnitsPerMinute

\* C7 - An unedited calendar suggestion is confirmed as it stands.  A confirm at
\* instant t of a dialog that holds a suggestion {S, N} with S at least ten
\* minutes after t, the user having entered nothing, goes through and emits
\* {startTime t, endTime S, source calendar-suggested, eventName N}; the ranking
\* it schedules runs with round((S - t) / 60000) available minutes, 15 for a
\* suggestion fifteen minutes ahead.  A window whose source is not
\* calendar-suggested carries no event name.
C7_SuggestionConfirmedUnedited ==
    /\ (/\ last.op = "confirm"
        /\ last.userValue = None
        /\ last.suggestedEndTime # None
        /\ last.suggestedEndTime[1] - now >= MinWindowMinutes * UnitsPerMinute)
       => (/\ last.ok
           /\ timeWindow = Some([startTime |-> now,
                                 endTime |-> last.suggestedEndTime[1],
                                 source |-> CalendarSuggested,
                                 eventName |-> last.eventName])
           /\ last.eventName # None
           /\ timers # << >>
           /\ timers[Len(timers)].timeWindowSource = CalendarSuggested
           /\ timers[Len(timers)].availableMinutes
                  = MathRound(last.suggestedEndTime[1] - now, UnitsPerMinute)
           /\ (last.suggestedEndTime[1] - now = 15 * UnitsPerMinute
                  => timers[Len(timers)].availableMinutes = 15))
    /\ (timeWindow # None /\ timeWindow[1].source # CalendarSuggested)
       => timeWindow[1].eventName = None
C7_Witness ==
    /\ last.op = "confirm"
    /\ last.ok
    /\ last.userValue = None
    /\ last.suggestedEndTime = Some(now + 15 * UnitsPerMinute)
    /\ timeWindow # None
    /\ timeWindow[1].source = CalendarSuggested
    /\ timeWindow[1].eventName = Some("Standup")
    /\ timers # << >>
    /\ timers[Len(timers)].availableMinutes = 15

\* C8 - Suggest another with nothing else to suggest.  When the task on show is
\* the only eligible task, suggestAnother ends the session: no recommendation,
\* no time window, not recommending, dialog closed.
C8_SuggestAnotherEndsSession ==
    [][(/\ last'.op = "suggestAnother"
        /\ recommendation # None
        /\ EligibleIds(tasks) = {recommendation[1].task.id})
       => (/\ recommendation' = None
           /\ timeWindow' = None
           /\ ~isRecommending'
           /\ ~showTimeConfirmation')]_vars

\* C9 - Suggest another with something else to suggest.  When a task other than
\* the task T on show is eligible, suggestAnother shows a task that is not T:
\* the one recommendTask gives for the current tasks, energy and goals with T
\* excluded and the minutes and source of the current window, which it leaves
\* as it is.
C9_SuggestAnotherMovesOn ==
    [][(/\ last'.op = "suggestAnother"
        /\ recommendation # None
        /\ EligibleIds(tasks) \ {recommendation[1].task.id} # {})
       => (/\ recommendation' # None
           /\ recommendation'[1].task.id # recommendation[1].task.id
           /\ timeWindow # None
           /\ timeWindow' = timeWindow
           /\ recommendation' =
                  recommendTask(tasks, energy, goals, {recommendation[1].task.id},
                                WindowMinutes(timeWindow[1]), timeWindow[1].source, now))]_vars

\* C10 - Accept and dismiss end the session and touch no data.  After either,
\* there is no recommendation, no time window and no ranking under way, and
\* tasks, goals and energy are what they were.
C10_AcceptDismissEndSession ==
    [][(last'.op \in {"accept", "dismiss"})
       => (/\ recommendation # None
           /\ recommendation' = None
           /\ timeWindow' = None
           /\ ~isRecommending'
           /\ tasks' = tasks
           /\ goals' = goals
           /\ energy' = energy)]_vars
C10_Witness ==
    /\ last.op = "accept"
    /\ recommendation = None
    /\ timeWindow = None
    /\ ~isRecommending
    /\ \A i \in 1..Len(tasks) : ~tasks[i].inProgress

\* ------------------------------------------------------- claims on the ranker
\* The task is not completed, not in progress, not excluded, and its deadline
\* text is, in any letter case, neither "reminder" nor "when you have time".
Eligible(task, excludeTaskIds) ==
    /\ task.completed = FALSE
    /\ task.inProgress = FALSE
    /\ \A id \in excludeTaskIds : id # task.id
    /\ LowerText(task.deadline) \notin {<<"reminder">>, <<"when", "you", "have", "time">>}

\* C12 - Candidate filter.  recommendTask returns null exactly when no task of
\* the list is eligible, and a recommendation it returns is for an eligible
\* task of the list; so a reminder task is never recommended.
C12_CandidateFilter ==
    (last.op = "rank")
    => /\ (recommendation = None)
          <=> (\A i \in 1..Len(tasks) : ~Eligible(tasks[i], last.excludeTaskIds))
       /\ recommendation # None
          => \E i \in 1..Len(tasks) :
                /\ tasks[i] = recommendation[1].task
                /\ Eligible(tasks[i], last.excludeTaskIds)

\* A list whose only task is a reminder written "Reminder" yields nothing.
C12_Witness ==
    /\ last.op = "rank"
    /\ last.excludeTaskIds = {}
    /\ recommendation = None
    /\ \E i \in 1..Len(tasks) :
          /\ tasks[i].deadline = <<"Reminder">>
          /\ ~tasks[i].completed /\ ~tasks[i].inProgress

\* The composite score recommendTask gives a task in the ranked state.
RankScore(task) ==
    Score(computePressure(task, now), computeEnergyFit(task, energy),
          computeDurationFit(task, WindowMinutes(timeWindow[1])))

\* The positions of the eligible tasks, and the orders of the list that keep
\* every two equally scored eligible tasks in their order.
EligiblePositions == {i \in 1..Len(tasks) : Eligible(tasks[i], last.excludeTaskIds)}

TiePreservingOrders ==
    {p \in [1..Len(tasks) -> 1..Len(tasks)] :
        /\ \A i, j \in 1..Len(tasks) : i # j => p[i] # p[j]
        /\ \A i, j \in 1..Len(tasks) :
              (/\ i < j
               /\ {p[i], p[j]} \subseteq EligiblePositions
               /\ RankScore(tasks[p[i]]) = RankScore(tasks[p[j]]))
              => p[i] < p[j]}

\* C13 - Selection.  The recommended task has the greatest composite score of
\* the eligible tasks and is the first in list order of those that reach it;
\* reordering the list without swapping equally scored tasks does not change
\* the recommendation.
C13_Selection ==
    (last.op = "rank" /\ recommendation # None)
    => /\ \E i \in EligiblePositions :
             /\ tasks[i] = recommendation[1].task
             /\ \A j \in EligiblePositions :
                   /\ RLeq(RankScore(tasks[j]), RankScore(tasks[i]))
                   /\ RankScore(tasks[j]) = RankScore(tasks[i]) => i <= j
       /\ \A p \in TiePreservingOrders :
             recommendTask([i \in 1..Len(tasks) |-> tasks[p[i]]], energy, goals,
                           last.excludeTaskIds, WindowMinutes(timeWindow[1]),
                           timeWindow[1].source, now) = recommendation

\* Two tasks reach the greatest score and the one listed first, which is not the
\* first of the list, is recommended.
C13_Witness ==
    /\ last.op = "rank"
    /\ recommendation # None
    /\ \E i, j \in EligiblePositions :
          /\ 1 < i /\ i < j
          /\ tasks[i] = recommendation[1].task
          /\ RankScore(tasks[j]) = RankScore(tasks[i])

\* C14 - Determinism.  For the same tasks, goals, energy, exclusions, window
\* length and window source, recommendTask returns the same result (task,
\* reasonType, duration and explanation, or null) at whatever instant it is
\* called.
C14_SameResultAtAnyInstant ==
    (last.op = "rank")
    => \A clock \in RankClocks :
          recommendTask(tasks, energy, goals, last.excludeTaskIds,
                        WindowMinutes(timeWindow[1]), timeWindow[1].source, clock)
          = recommendation

\* The non-negotiable tasks of the list that have a number of days until due
\* at the instant `clock`, each with that instant.
DatedObligations ==
    {<<i, clock>> \in (1..Len(tasks)) \X RankClocks :
        /\ tasks[i].taskType = "non-negotiable"
        /\ parseDeadline(tasks[i].deadline, clock) # None}

\* Their days until due, each with the pressure computePressure gives.
PressurePoints ==
    {<<parseDeadline(tasks[x[1]].deadline, x[2])[1], computePressure(tasks[x[1]], x[2])>> :
        x \in DatedObligations}

Monotone(points) ==
    \A x \in points :
       /\ RLeq(RInt(20), x[2]) /\ RLeq(x[2], RInt(100))
       /\ \A y \in points : RLeq(x[1], y[1]) => RLeq(y[2], x[2])

\* C15 - Pressure monotonicity.  Of two non-negotiable tasks with days until due
\* d1 <= d2, zero and negative values included, the one due in d1 days has at
\* least the pressure of the other, and every such pressure is in [20, 100].
C15_PressureMonotone == Monotone(PressurePoints)

\* A ranking of an overdue task and one due later: the overdue one has the
\* greater pressure and is the one recommended.
C15_Witness ==
    /\ last.op = "rank"
    /\ recommendation # None
    /\ \E i, j \in 1..Len(tasks) :
          /\ {<<i, now>>, <<j, now>>} \subseteq DatedObligations
          /\ RLess(parseDeadline(tasks[i].deadline, now)[1], RInt(0))
          /\ RLess(RInt(0), parseDeadline(tasks[j].deadline, now)[1])
          /\ RLess(computePressure(tasks[j], now), computePressure(tasks[i], now))
          /\ recommendation[1].task = tasks[i]

\* The scored entries of the eligible tasks in the ranked state.
ScoredCandidates ==
    {ScoreTask(tasks[i], energy, WindowMinutes(timeWindow[1]), now) : i \in EligiblePositions}

InPercentRange(n) == 0 <= n /\ n <= 100

\* C16 - Composite score.  For every eligible task, pressure, energy fit and
\* duration fit are each in [0, 100], the score is
\* 0.5 * pressure + 0.3 * energyFit + 0.2 * durationFit, and it is in [4.5, 100].
C16_CompositeScore ==
    (last.op = "rank")
    => \A s \in ScoredCandidates :
          /\ RLeq(RInt(0), s.pressure) /\ RLeq(s.pressure, RInt(100))
          /\ InPercentRange(s.energyFit)
          /\ InPercentRange(s.durationFit)
          /\ 10 * s.score[1] * s.pressure[2]
             = s.score[2] * (5 * s.pressure[1]
                             + 3 * s.energyFit * s.pressure[2]
                             + 2 * s.durationFit * s.pressure[2])
          /\ RLeq(<<9, 2>>, s.score) /\ RLeq(s.score, RInt(100))

\* The lowest score there is: a 90-minute general task, low energy, ten minutes.
C16_Witness ==
    /\ last.op = "rank"
    /\ recommendation # None
    /\ \E s \in ScoredCandidates :
          /\ s.task = recommendation[1].task
          /\ s.task.taskType = "general"
          /\ s.durationFit = 10
          /\ s.score = <<15, 2>>

\* C17 - Reason type.  A recommendation is labelled "core-pressure" exactly when
\* its task is non-negotiable and its pressure is above 50, and
\* "growth-opportunity" otherwise, whatever score made it win.
C17_ReasonType ==
    (last.op = "rank" /\ recommendation # None)
    => LET rec == recommendation[1]
           core == /\ rec.task.taskType = "non-negotiable"
                   /\ RLess(RInt(50), computePressure(rec.task, now))
       IN  rec.reasonType = (IF core THEN "core-pressure" ELSE "growth-opportunity")

\* A non-negotiable task whose pressure is at most 50 is recommended and
\* labelled "growth-opportunity".
C17_Witness ==
    /\ last.op = "rank"
    /\ recommendation # None
    /\ recommendation[1].task.taskType = "non-negotiable"
    /\ RLeq(computePressure(recommendation[1].task, now), RInt(50))
    /\ recommendation[1].reasonType = "growth-opportunity"

\* ------------------------------------------------------ claims on a session
\* C20 - Event-name non-interference.  The explanation of the recommendation
\* shown for a window names no event: for a calendar-suggested window it has the
\* fixed phrase "before your next commitment", which carries no clock time, and
\* for a user or system-default window it names the clock time of the window's
\* end.
C20_ExplanationTimePhrase ==
    (recommendation # None /\ timeWindow # None)
    => LET phrase == recommendation[1].explanation.timePhrase
       IN  IF timeWindow[1].source = "calendar-suggested"
           THEN phrase = CommitmentPhrase
           ELSE /\ phrase.commitment = FALSE
                /\ phrase.minuteOfDay = MinuteOfDay(timeWindow[1].endTime)

\* C11 - Energy change during a session.  When a recommendation and its window
\* are shown and the energy changes, the recommendation becomes
\* recommendTask(tasks, the new energy, goals, no exclusions, the minutes and
\* the source of the same window) and the window stays; when none is shown the
\* change of energy changes nothing else.
C11_EnergyChangeRecomputes ==
    [][(last'.op = "setEnergy")
       => IF recommendation # None /\ timeWindow # None
          THEN /\ recommendation'
                  = recommendTask(tasks, energy', goals, {},
                                  WindowMinutes(timeWindow[1]), timeWindow[1].source, now)
               /\ timeWindow' = timeWindow
          ELSE UNCHANGED <<goals, tasks, recommendation, isRecommending, timeWindow,
                           showTimeConfirmation, calendarSuggestedEndTime,
                           calendarEventName, dialogVars, timers, fetches>>]_vars

\* C18 - Cancellation leaves nothing behind.  The answer of a lookup that was
\* started before the user cancelled the dialog is discarded: it does not
\* re-open the dialog and changes neither the suggested end time, the event
\* name nor the dialog's fields.
C18_StaleLookupDiscarded ==
    [][(last'.op = "lookup" /\ last'.stale)
       => UNCHANGED <<showTimeConfirmation, calendarSuggestedEndTime,
                      calendarEventName, dialogVars>>]_vars

\* C19 - TimeWindow lifetime.  A window is stored only while a session is
\* active: a recommendation is displayed or the deferred ranking that follows
\* the confirm is still pending.  A confirm whose ranking finds no eligible
\* task leaves no window behind.
C19_WindowOnlyInSession ==
    (timeWindow # None) => (recommendation # None \/ timers # << >>)

\* ------------------------------------------------ claims on the explanation
UrgencyWords == {"overdue", "late", "urgent"}

\* Days until due in every bucket generateExplanation tells apart, and none.
DayBuckets ==
    {None} \cup {Some(d) : d \in {<<-1, 1>>, <<1, 4>>, <<1, 2>>, <<1, 1>>, <<2, 1>>,
                                  <<3, 1>>, <<5, 1>>, <<7, 1>>, <<8, 1>>}}

WordsOf(text) == {text[k] : k \in DOMAIN text}

ExplanationWords(explanation) ==
    TemplateWords(explanation.template, explanation.timePhrase.commitment)

\* Every explanation generateExplanation can give for a task of the list.
AllExplanations ==
    {generateExplanation(tasks[i], reasonType, goals, d, RInt(MIN_PRESSURE), now, src, now) :
        i \in 1..Len(tasks), reasonType \in {"core-pressure", "growth-opportunity"},
        d \in DayBuckets, src \in WindowSources}

\* C21 - No urgency or guilt wording.  In every branch of generateExplanation
\* (both reason types, every bucket of days until due and none, every window
\* source, with a goal or without) the fixed text of the template holds none of
\* the words "overdue", "late", "urgent".
C21_NoUrgencyWording ==
    \A e \in AllExplanations : WordsOf(ExplanationWords(e)) \cap UrgencyWords = {}

\* A recommendation whose explanation ends "... preserves your options for
\* later": the word nearest to a forbidden one.
C21_Witness ==
    /\ last.op = "rank"
    /\ recommendation # None
    /\ recommendation[1].reasonType = "core-pressure"
    /\ "later" \in WordsOf(ExplanationWords(recommendation[1].explanation))
    /\ Cardinality({e.template : e \in AllExplanations}) = 8

\* ------------------------------------------------- claims on the session, 2
\* C22 - One session state at a time.  The session moves Idle,
\* AwaitingConfirmation, Confirmed, active, Idle and is in one of them only:
\* the confirmation dialog is never open while a recommendation is displayed,
\* so the deferred ranking of a session that a new ask has superseded installs
\* no recommendation over the dialog of the new one.
C22_NoDialogOverRecommendation ==
    ~(showTimeConfirmation /\ recommendation # None)

\* ------------------------------------------------ claims on the ranker, 2
\* C23 - Scenario A.  For exactly the tasks {20 minutes, "today if possible",
\* non-negotiable} and {45 minutes, "when you have time", growth}, low energy and
\* 60 minutes, recommendTask returns the non-negotiable task with reason type
\* "core-pressure"; its pressure is 20 + 80 / (1 + 2 * 0.25) = 220/3 and its
\* energy fit 100.
C23_ScenarioA ==
    (/\ last.op = "rank"
     /\ last.excludeTaskIds = {}
     /\ tasks \in {<<RankTasks[1], RankTasks[3]>>, <<RankTasks[3], RankTasks[1]>>}
     /\ energy = "low"
     /\ WindowMinutes(timeWindow[1]) = 60)
    => /\ recommendation # None
       /\ recommendation[1].task = RankTasks[1]
       /\ recommendation[1].reasonType = "core-pressure"
       /\ \E s \in ScoredCandidates :
             /\ s.task = recommendation[1].task
             /\ 3 * s.pressure[1] = 220 * s.pressure[2]
             /\ s.energyFit = 100

C23_Witness ==
    /\ last.op = "rank"
    /\ last.excludeTaskIds = {}
    /\ tasks = <<RankTasks[3], RankTasks[1]>>
    /\ RankTasks[1].estimatedMinutes = 20 /\ RankTasks[3].estimatedMinutes = 45
    /\ energy = "low"
    /\ WindowMinutes(timeWindow[1]) = 60
    /\ recommendation # None

\* ------------------------------------------------ claims on the session, 3
DataOps == {"createTask", "updateTask", "deleteTask", "completeTask",
            "createGoal", "updateGoal", "deleteGoal"}

\* C24 - Ranking re-runs by itself only on an energy change.  A creation,
\* update, completion or deletion of a task or a goal leaves the displayed
\* recommendation and the window as they are, and the recommendation changes
\* only by a ranking after confirm, "suggest another" or a change of energy.
C24_DataChangeKeepsRecommendation ==
    [][/\ last'.op \in DataOps
          => (recommendation' = recommendation /\ timeWindow' = timeWindow)
       /\ recommendation' # recommendation
          => last'.op \in {"rank", "suggestAnother", "setEnergy"}]_vars

\* The task on display was deleted and is still recommended.
C24_Witness ==
    /\ last.op = "deleteTask"
    /\ recommendation # None
    /\ timeWindow # None
    /\ \A i \in 1..Len(tasks) : tasks[i].id # recommendation[1].task.id
    /\ \E i \in 1..Len(tasks) : IsCandidate(tasks[i], {})

\* ------------------------------------------------ claims on the ranker, 3
\* C25 - Over-budget tasks are penalised, never excluded.  A ranking with an
\* eligible task returns a recommendation even when every eligible task is
\* longer than the window; such a task has duration fit
\* max(10, 60 - 2 * (estimatedMinutes - availableMinutes)); and the duration of a
\* recommendation is min(estimatedMinutes, availableMinutes), above 0 and at
\* most the window.
C25_OverBudgetPenalised ==
    (last.op = "rank")
    => LET availableMinutes == WindowMinutes(timeWindow[1])
       IN  /\ EligiblePositions # {} => recommendation # None
           /\ \A s \in ScoredCandidates :
                 s.task.estimatedMinutes > availableMinutes
                 => \/ s.durationFit = 60 - 2 * (s.task.estimatedMinutes - availableMinutes)
                       /\ s.durationFit >= 10
                    \/ s.durationFit = 10
                       /\ 60 - 2 * (s.task.estimatedMinutes - availableMinutes) <= 10
           /\ recommendation # None
              => LET duration == recommendation[1].duration
                     estimatedMinutes == recommendation[1].task.estimatedMinutes
                 IN  /\ duration \in {estimatedMinutes, availableMinutes}
                     /\ duration <= estimatedMinutes
                     /\ 0 < duration /\ duration <= availableMinutes

\* Every eligible task is longer than the window and one is recommended, for
\* the length of the window.
C25_Witness ==
    /\ last.op = "rank"
    /\ recommendation # None
    /\ Cardinality(EligiblePositions) = 2
    /\ \A i \in EligiblePositions :
          tasks[i].estimatedMinutes > WindowMinutes(timeWindow[1])
    /\ recommendation[1].duration = WindowMinutes(timeWindow[1])

\* ------------------------------------------------- claims on a session, 2
\* C26 - The explanation names the end of the confirmed window.  Every step that
\* produces a recommendation during a session (the ranking after the confirm,
\* suggestAnother, the recompute on a change of energy) for a window whose
\* source is user or system-default leaves an explanation whose clock time is
\* the window's endTime to the minute, whatever time has passed since the
\* confirm.
C26_ExplanationNamesWindowEnd ==
    [][(/\ last'.op \in {"ranking", "suggestAnother", "setEnergy"}
        /\ recommendation' # None
        /\ timeWindow' # None
        /\ timeWindow'[1].source \in {"user", "system-default"})
       => recommendation'[1].explanation.timePhrase
          = ClockPhrase(formatEndTime(timeWindow'[1].endTime, now'))]_vars


\* C27 - A displayed recommendation belongs to a confirmed window.  In every
\* reachable state, whenever recommendation is not null, timeWindow is not null,
\* also when the user asks again inside the 200 ms between the confirm and the
\* deferred ranking.
C27_RecommendationHasWindow ==
    recommendation # None => timeWindow # None


\* C28 - The displayed recommendation is the ranking of the current inputs.
\* With the tasks and goals unchanged since the confirm, a step that computes
\* the displayed recommendation (the deferred ranking after the confirm, the
\* recompute on a change of energy) leaves
\* recommendTask(tasks, the current energy, goals, no exclusions, the window):
\* a change of energy made between the confirm and the deferred ranking is
\* reflected in the recommendation the callback installs.
C28_RankingUsesCurrentEnergy ==
    [][(/\ recommendation' # None
        /\ timeWindow' # None
        /\ \/ /\ last'.op = "ranking"
              /\ Head(timers).tasks = tasks
              /\ Head(timers).goals = goals
           \/ /\ last'.op = "setEnergy"
              /\ recommendation' # recommendation)
       => recommendation'
          = recommendTask(tasks', energy', goals', {}, WindowMinutes(timeWindow'[1]),
                          timeWindow'[1].source, now')]_vars


\* C29 - "Suggest another" has no memory.  With a window confirmed, each call
\* excludes only the task on display: the new recommendation is the ranking of
\* all the tasks but that one.  With exactly two eligible tasks the call shows
\* the other one and keeps the window, so successive calls alternate between
\* the two and never end the session; the call ends the session only when the
\* task on display is the only eligible one.
C29_SuggestAnotherMemoryless ==
    [][(last'.op = "suggestAnother" /\ recommendation # None /\ timeWindow # None)
       => LET shown == recommendation[1].task.id
              others == EligibleIds(tasks) \ {shown}
          IN  /\ recommendation'
                 = recommendTask(tasks, energy, goals, {shown},
                                 WindowMinutes(timeWindow[1]), timeWindow[1].source, now)
              /\ Cardinality(EligibleIds(tasks)) = 2
                 => /\ recommendation' # None
                    /\ {recommendation'[1].task.id} = others
                    /\ timeWindow' = timeWindow
              /\ recommendation' = None <=> EligibleIds(tasks) = {shown}
              /\ recommendation' = None => timeWindow' = None]_vars

\* The task the ranking prefers is on display again after "suggest another":
\* it was skipped earlier in the session, for the other one.
C29_Witness ==
    /\ last.op = "suggestAnother"
    /\ tasks = <<EnergyTaskA, EnergyTaskB>>
    /\ energy = InitialEnergy
    /\ timeWindow # None
    /\ recommendation # None
    /\ recommendation[1].task = EnergyTaskA
    /\ recommendation
       = recommendTask(tasks, energy, goals, {}, WindowMinutes(timeWindow[1]),
                       timeWindow[1].source, now)


\* ------------------------------------------------ claims on the ranker, 4
\* A deadline that is neither a date ("due m/d/yyyy") nor "today": "tomorrow",
\* "friday", "this week", no deadline, or a text parseDeadline does not know.
LaterOrUndated(task) ==
    /\ CustomDateMatch(task.deadline) = None
    /\ ~Includes(LowerText(task.deadline), <<"today">>)

\* C30 - Core pressure means due within a day.  Every scored task with reason
\* type "core-pressure" has a number of days until due, and it is below 1; a
\* non-negotiable task due "tomorrow", "friday", "this week", with no deadline
\* or with an unrecognised one is labelled "growth-opportunity"; and the
\* explanation of a "core-pressure" recommendation is one of the two sentences
\* for at most one day until due.
C30_CorePressureWithinADay ==
    (last.op = "rank")
    => /\ \A s \in ScoredCandidates :
             /\ s.reasonType = "core-pressure"
                => /\ s.daysUntilDue # None
                   /\ RLess(s.daysUntilDue[1], RInt(1))
             /\ (s.task.taskType = "non-negotiable" /\ LaterOrUndated(s.task))
                => s.reasonType = "growth-opportunity"
       /\ (recommendation # None /\ recommendation[1].reasonType = "core-pressure")
          => recommendation[1].explanation.template
             \in {"preserves your options for later",
                  "before this becomes more constrained"}

\* A task due at the end of today is recommended as core pressure, next to a
\* non-negotiable task due tomorrow that is labelled a growth opportunity.
C30_Witness ==
    /\ last.op = "rank"
    /\ recommendation # None
    /\ recommendation[1].reasonType = "core-pressure"
    /\ recommendation[1].explanation.template = "before this becomes more constrained"
    /\ \E s \in ScoredCandidates :
          /\ s.task.taskType = "non-negotiable"
          /\ s.task.deadline = <<"tomorrow">>
          /\ s.daysUntilDue = Some(RInt(1))
          /\ s.reasonType = "growth-opportunity"

====
